---- MODULE Spec2Model ----
(***************************************************************************)
(* Nine Square (src/orthogonal_checkers.py): the move-generation and       *)
(* turn-state engine of class NineSquare.  The board is the 8x8 grid       *)
(* self.board, a click is the pixel position pygame hands to handle_click, *)
(* and one action models one whole call of handle_click.                   *)
(***************************************************************************)
EXTENDS Integers, FiniteSets, Sequences, TLC

(* ------------------------------ constants ------------------------------ *)

BOARD_SIZE == 8
SQUARE_SIZE == 80
BOARD_WIDTH == BOARD_SIZE * SQUARE_SIZE
BOARD_HEIGHT == BOARD_SIZE * SQUARE_SIZE
FOOTER_HEIGHT == 50
WINDOW_WIDTH == BOARD_WIDTH
BUTTON_WIDTH == 120
BUTTON_HEIGHT == 35
BUTTON_X == WINDOW_WIDTH - BUTTON_WIDTH - 10
BUTTON_Y == BOARD_HEIGHT + 7

\* Python's None, as the value of an empty cell and of "no winner".
EMPTY == "None"
PLAYER1 == "P1"
PLAYER2 == "P2"

\* self.selected_unit = None
NoUnit == << >>

(* ------------------------------- bounds -------------------------------- *)

\* Board changes (simple moves and jumps) explored from an initial state.
MaxMoves == 2
\* Cells of a base board overwritten when enumerating inputs of the queries.
MaxEdits == 2

\* Board changes explored where every click of every step is examined.
ShortMoves == 1

(* ------------------------------- helpers ------------------------------- *)

Rows == 0 .. (BOARD_SIZE - 1)
Pos == Rows \X Rows
Players == {PLAYER1, PLAYER2}
CellValues == {EMPTY, PLAYER1, PLAYER2}

_is_valid_position(row, col) ==
  /\ 0 <= row /\ row < BOARD_SIZE
  /\ 0 <= col /\ col < BOARD_SIZE

\* north, south, east, west, in the order of the source's list
directions == << <<-1, 0>>, <<1, 0>>, <<0, 1>>, <<0, -1>> >>

\* the cell self.board[row][col] of a board, for a position <<row, col>>
At(b, p) == b[p[1]][p[2]]

_initialize_board ==
  [row \in Rows |-> [col \in Rows |->
     IF row \in 0 .. 2 /\ col \in 0 .. 2 THEN PLAYER1
     ELSE IF row \in 5 .. 7 /\ col \in 5 .. 7 THEN PLAYER2
     ELSE EMPTY]]

\* Mutant: the four diagonal neighbours are candidates too.
GetSimpleMovesDiagonal(b, row, col) ==
  ({<<row + dr, col + dc>> : dr \in {-1, 0, 1}, dc \in {-1, 0, 1}}
     \ {<<row, col>>}) \cap {p \in Pos : At(b, p) = EMPTY}

\* Mutant: a query on a cell that holds no piece answers with no moves.
GetSimpleMovesOfPieceOnly(b, row, col) ==
  IF b[row][col] = EMPTY THEN {}
  ELSE {p \in Pos : /\ (p[1] - row) * (p[1] - row) + (p[2] - col) * (p[2] - col) = 1
                    /\ At(b, p) = EMPTY}

_get_simple_moves(b, row, col) ==
  LET step(i) == <<row + directions[i][1], col + directions[i][2]>>
  IN  {step(i) : i \in {j \in DOMAIN directions :
                          /\ _is_valid_position(step(j)[1], step(j)[2])
                          /\ At(b, step(j)) = EMPTY}}

\* Mutant: only an opponent's piece can be jumped over, as in checkers.
GetJumpMovesOpponentOnly(b, row, col) ==
  LET adj(i)  == <<row + directions[i][1], col + directions[i][2]>>
      land(i) == <<adj(i)[1] + directions[i][1], adj(i)[2] + directions[i][2]>>
  IN  {land(i) : i \in {j \in DOMAIN directions :
                          /\ _is_valid_position(adj(j)[1], adj(j)[2])
                          /\ At(b, adj(j)) # EMPTY
                          /\ At(b, adj(j)) # b[row][col]
                          /\ _is_valid_position(land(j)[1], land(j)[2])
                          /\ At(b, land(j)) = EMPTY}}

_get_jump_moves(b, row, col) ==
  LET adj(i)  == <<row + directions[i][1], col + directions[i][2]>>
      land(i) == <<adj(i)[1] + directions[i][1], adj(i)[2] + directions[i][2]>>
  IN  {land(i) : i \in {j \in DOMAIN directions :
                          /\ _is_valid_position(adj(j)[1], adj(j)[2])
                          /\ At(b, adj(j)) # EMPTY
                          /\ _is_valid_position(land(j)[1], land(j)[2])
                          /\ At(b, land(j)) = EMPTY}}

_is_in_home_area(row, col, player) ==
  IF player = PLAYER1
  THEN 5 <= row /\ row <= 7 /\ 5 <= col /\ col <= 7
  ELSE 0 <= row /\ row <= 2 /\ 0 <= col /\ col <= 2

\* Mutant: Player2's condition is evaluated first.
CheckWinPlayer2First(b) ==
  LET p1_units == {p \in Pos : At(b, p) = PLAYER1}
      p2_units == {p \in Pos : At(b, p) = PLAYER2}
  IN  IF \A p \in p2_units : _is_in_home_area(p[1], p[2], PLAYER2) THEN PLAYER2
      ELSE IF \A p \in p1_units : _is_in_home_area(p[1], p[2], PLAYER1) THEN PLAYER1
      ELSE EMPTY

_check_win_condition(b) ==
  LET p1_units == {p \in Pos : At(b, p) = PLAYER1}
      p2_units == {p \in Pos : At(b, p) = PLAYER2}
      p1_all_in_target == \A p \in p1_units : _is_in_home_area(p[1], p[2], PLAYER1)
      p2_all_in_target == \A p \in p2_units : _is_in_home_area(p[1], p[2], PLAYER2)
  IN  IF p1_all_in_target THEN PLAYER1
      ELSE IF p2_all_in_target THEN PLAYER2
      ELSE EMPTY

\* Mutant: the jumped piece is captured, as in checkers.
PerformJumpCapturing(b, from, to) ==
  [b EXCEPT ![to[1]][to[2]] = b[from[1]][from[2]],
            ![from[1]][from[2]] = EMPTY,
            ![(from[1] + to[1]) \div 2][(from[2] + to[2]) \div 2] = EMPTY]

\* Mutant: the source cell is not cleared.
PerformJumpCopying(b, from, to) ==
  [b EXCEPT ![to[1]][to[2]] = b[from[1]][from[2]]]

_perform_jump(b, from, to) ==
  [b EXCEPT ![to[1]][to[2]] = b[from[1]][from[2]],
            ![from[1]][from[2]] = EMPTY]

\* Mutant: the source cell of a simple move is not cleared.
PerformSimpleMoveCopying(b, from, to) ==
  [b EXCEPT ![to[1]][to[2]] = b[from[1]][from[2]]]

_perform_simple_move(b, from, to) ==
  [b EXCEPT ![to[1]][to[2]] = b[from[1]][from[2]],
            ![from[1]][from[2]] = EMPTY]

_is_point_in_button(pos) ==
  /\ BUTTON_X <= pos[1] /\ pos[1] <= BUTTON_X + BUTTON_WIDTH
  /\ BUTTON_Y <= pos[2] /\ pos[2] <= BUTTON_Y + BUTTON_HEIGHT

(* -------------------------------- state -------------------------------- *)

VARIABLES
  board,             \* self.board: board[row][col] \in CellValues
  current_player,    \* self.current_player
  selected_unit,     \* self.selected_unit: a position, or NoUnit
  possible_moves,    \* self.possible_moves
  possible_jumps,    \* self.possible_jumps
  game_over,         \* self.game_over
  winner,            \* self.winner: a player, or EMPTY for None
  in_jump_sequence,  \* self.in_jump_sequence
  last,              \* history: what the last call of handle_click did: a
                     \*   "jump" or "simple" move from a cell to a cell, an
                     \*   "end_turn", or "no_move" (select, deselect, ignored)
  turn_kind,         \* history: "none", "simple" or "jump": the board changes
                     \*   made so far in the turn of current_player
  turn_at,           \* history: where the piece moved in this turn now stands
  budget,            \* exploration: board changes still allowed
  query,             \* the inputs and results of the move-generation queries
  script_pos         \* clicks of EndgameScript replayed so far

engine == <<board, current_player, selected_unit, possible_moves,
            possible_jumps, game_over, winner, in_jump_sequence>>
history == <<last, turn_kind, turn_at>>
vars == <<board, current_player, selected_unit, possible_moves,
          possible_jumps, game_over, winner, in_jump_sequence,
          last, turn_kind, turn_at, budget, query, script_pos>>

Did(kind, from, to) == [kind |-> kind, from |-> from, to |-> to]
NoQuery == [pos |-> NoUnit, done |-> FALSE, simple |-> {}, jumps |-> {},
            win |-> EMPTY]

\* NineSquare.__init__, with the board given
Constructed(b) ==
  /\ board = b
  /\ current_player = PLAYER1
  /\ selected_unit = NoUnit
  /\ possible_moves = {}
  /\ possible_jumps = {}
  /\ game_over = FALSE
  /\ winner = EMPTY
  /\ in_jump_sequence = FALSE
  /\ last = Did("none", NoUnit, NoUnit)
  /\ turn_kind = "none"
  /\ turn_at = NoUnit

Init ==
  /\ Constructed(_initialize_board)
  /\ budget = MaxMoves
  /\ query = NoQuery
  /\ script_pos = 0

(* ------------------------------- actions ------------------------------- *)

\* Mutant: the move sets survive a deselection.
DeselectKeepsMoveSets ==
  /\ selected_unit' = NoUnit
  /\ in_jump_sequence' = FALSE
  /\ UNCHANGED <<possible_moves, possible_jumps>>

\* Mutant: the jump-chain flag survives a deselection.
DeselectKeepsChainFlag ==
  /\ selected_unit' = NoUnit
  /\ possible_moves' = {}
  /\ possible_jumps' = {}
  /\ UNCHANGED in_jump_sequence

_deselect_unit ==
  /\ selected_unit' = NoUnit
  /\ possible_moves' = {}
  /\ possible_jumps' = {}
  /\ in_jump_sequence' = FALSE

\* Mutant: the turn passes without the win condition being evaluated.
EndTurnNoWinCheck(b) ==
  /\ _deselect_unit
  /\ current_player' = (IF current_player = PLAYER1 THEN PLAYER2 ELSE PLAYER1)
  /\ UNCHANGED <<game_over, winner>>

\* Mutant: the turn ends without the player being switched.
EndTurnKeepsPlayer(b) ==
  /\ _deselect_unit
  /\ LET w == _check_win_condition(b)
     IN  /\ game_over' = (w # EMPTY)
         /\ winner' = w
         /\ UNCHANGED current_player

\* Mutant: the player is switched on a win too.
EndTurnSwitchesOnWin(b) ==
  /\ _deselect_unit
  /\ LET w == _check_win_condition(b)
     IN  /\ game_over' = (w # EMPTY)
         /\ winner' = w
         /\ current_player' =
              (IF current_player = PLAYER1 THEN PLAYER2 ELSE PLAYER1)

\* b is self.board at the time of the call
_end_turn(b) ==
  /\ _deselect_unit
  /\ LET w == _check_win_condition(b)
     IN  IF w # EMPTY
         THEN /\ game_over' = TRUE
              /\ winner' = w
              /\ UNCHANGED current_player
         ELSE /\ current_player' =
                   (IF current_player = PLAYER1 THEN PLAYER2 ELSE PLAYER1)
              /\ UNCHANGED <<game_over, winner>>

\* Mutant: a click that should be ignored deselects.
IgnoredDeselects ==
  /\ _deselect_unit
  /\ UNCHANGED <<board, current_player, game_over, winner>>
  /\ last' = Did("no_move", NoUnit, NoUnit)

\* a call that returns without touching the engine's state
Ignored ==
  /\ UNCHANGED engine
  /\ last' = Did("no_move", NoUnit, NoUnit)

\* handle_click after its game_over test
ClickBody(mouse_pos) ==
  LET col == mouse_pos[1] \div SQUARE_SIZE
      row == mouse_pos[2] \div SQUARE_SIZE
      target_pos == <<row, col>>
  IN
  IF in_jump_sequence /\ _is_point_in_button(mouse_pos) THEN
    /\ _end_turn(board)
    /\ UNCHANGED board
    /\ last' = Did("end_turn", NoUnit, NoUnit)
  ELSE IF ~_is_valid_position(row, col) THEN
    Ignored
  ELSE IF selected_unit = NoUnit THEN
    IF board[row][col] = current_player THEN
      /\ selected_unit' = target_pos
      /\ possible_moves' = _get_simple_moves(board, row, col)
      /\ possible_jumps' = _get_jump_moves(board, row, col)
      /\ UNCHANGED <<board, current_player, game_over, winner, in_jump_sequence>>
      /\ last' = Did("no_move", NoUnit, NoUnit)
    ELSE
      Ignored
  ELSE IF target_pos = selected_unit THEN
    /\ _deselect_unit
    /\ UNCHANGED <<board, current_player, game_over, winner>>
    /\ last' = Did("no_move", NoUnit, NoUnit)
  ELSE IF target_pos \in possible_jumps THEN
    LET b == _perform_jump(board, selected_unit, target_pos)
        new_jumps == _get_jump_moves(b, row, col)
    IN  /\ board' = b
        /\ last' = Did("jump", selected_unit, target_pos)
        /\ IF new_jumps # {}
           THEN /\ in_jump_sequence' = TRUE
                /\ selected_unit' = target_pos
                /\ possible_moves' = {}
                /\ possible_jumps' = new_jumps
                /\ UNCHANGED <<current_player, game_over, winner>>
           ELSE _end_turn(b)
  ELSE IF target_pos \in possible_moves /\ ~in_jump_sequence THEN
    LET b == _perform_simple_move(board, selected_unit, target_pos)
    IN  /\ board' = b
        /\ last' = Did("simple", selected_unit, target_pos)
        /\ _end_turn(b)
  ELSE IF board[row][col] = current_player /\ ~in_jump_sequence THEN
    /\ selected_unit' = target_pos
    /\ possible_moves' = _get_simple_moves(board, row, col)
    /\ possible_jumps' = _get_jump_moves(board, row, col)
    /\ UNCHANGED <<board, current_player, game_over, winner, in_jump_sequence>>
    /\ last' = Did("no_move", NoUnit, NoUnit)
  ELSE IF ~in_jump_sequence THEN
    /\ _deselect_unit
    /\ UNCHANGED <<board, current_player, game_over, winner>>
    /\ last' = Did("no_move", NoUnit, NoUnit)
  ELSE
    Ignored

\* Mutant: the game_over test at the head of handle_click is missing.
HandleClickNoGameOverTest(mouse_pos) == ClickBody(mouse_pos)

\* Mutant: the End Turn button works outside a jump sequence too.
HandleClickEndTurnAnytime(mouse_pos) ==
  IF game_over THEN Ignored
  ELSE IF _is_point_in_button(mouse_pos)
       THEN /\ _end_turn(board)
            /\ UNCHANGED board
            /\ last' = Did("end_turn", NoUnit, NoUnit)
       ELSE ClickBody(mouse_pos)

handle_click(mouse_pos) ==
  IF game_over THEN Ignored ELSE ClickBody(mouse_pos)

\* The history of the turn, read off the step handle_click has taken.
TurnHistory ==
  IF current_player' # current_player
  THEN turn_kind' = "none" /\ turn_at' = NoUnit
  ELSE IF board' # board
       THEN turn_kind' = last'.kind /\ turn_at' = last'.to
       ELSE UNCHANGED <<turn_kind, turn_at>>

\* The pixel at the centre of a cell, as draw_units computes it.
CellCentre(row, col) ==
  <<col * SQUARE_SIZE + SQUARE_SIZE \div 2, row * SQUARE_SIZE + SQUARE_SIZE \div 2>>
\* A pixel inside the End Turn button, and one in the footer outside it.
ButtonPoint == <<BUTTON_X + BUTTON_WIDTH \div 2, BUTTON_Y + BUTTON_HEIGHT \div 2>>
FooterPoint == <<SQUARE_SIZE \div 2, BOARD_HEIGHT + FOOTER_HEIGHT \div 2>>
ClickPoints ==
  {CellCentre(p[1], p[2]) : p \in Pos} \cup {ButtonPoint, FooterPoint}

\* run: a left mouse button event is handed to handle_click
Click(mouse_pos) ==
  /\ handle_click(mouse_pos)
  /\ TurnHistory
  /\ budget' = IF board' # board THEN budget - 1 ELSE budget
  /\ budget' >= 0
  /\ UNCHANGED <<query, script_pos>>

Next == \E mouse_pos \in ClickPoints : Click(mouse_pos)

Spec == Init /\ [][Next]_vars

\* The same game, explored one board change less deep: the specification of
\* the claims that examine every possible click of every step.
InitShort ==
  /\ Constructed(_initialize_board)
  /\ budget = ShortMoves
  /\ query = NoQuery
  /\ script_pos = 0

SpecShort == InitShort /\ [][Next]_vars

(* ------------------------------ an endgame ----------------------------- *)

\* A position one move short of a win for either side: each player has eight
\* pieces in the target zone and the ninth next to the zone's free cell.
EndgameBoard ==
  [row \in Rows |-> [col \in Rows |->
     IF <<row, col>> \in ((5 .. 7) \X (5 .. 7) \ {<<5, 5>>}) \cup {<<4, 5>>}
       THEN PLAYER1
     ELSE IF <<row, col>> \in ((0 .. 2) \X (0 .. 2) \ {<<2, 2>>}) \cup {<<3, 2>>}
       THEN PLAYER2
     ELSE EMPTY]]

\* The clicks of a game, from the initial board, that ends at EndgameBoard
\* with Player1 to move (found by playing the engine of the source).
EndgameScript ==
  << <<200, 120>>, <<200, 280>>, <<570, 660>>, <<600, 520>>, <<600, 360>>, <<570, 660>>,
     <<120, 40>>, <<280, 40>>, <<570, 660>>, <<520, 520>>, <<360, 520>>, <<570, 660>>,
     <<200, 200>>, <<200, 360>>, <<570, 660>>, <<600, 440>>, <<600, 280>>, <<570, 660>>,
     <<40, 200>>, <<200, 200>>, <<570, 660>>, <<440, 520>>, <<280, 520>>, <<570, 660>>,
     <<120, 200>>, <<280, 200>>, <<570, 660>>, <<600, 360>>, <<600, 200>>, <<570, 660>>,
     <<200, 40>>, <<360, 40>>, <<570, 660>>, <<520, 440>>, <<360, 440>>, <<570, 660>>,
     <<280, 40>>, <<440, 40>>, <<570, 660>>, <<360, 520>>, <<360, 360>>, <<570, 660>>,
     <<40, 120>>, <<200, 120>>, <<570, 660>>, <<360, 440>>, <<360, 280>>, <<570, 660>>,
     <<120, 120>>, <<280, 120>>, <<570, 660>>, <<600, 280>>, <<600, 120>>, <<570, 660>>,
     <<280, 120>>, <<280, 280>>, <<570, 660>>, <<360, 360>>, <<360, 200>>, <<570, 660>>,
     <<200, 280>>, <<200, 440>>, <<570, 660>>, <<360, 280>>, <<360, 120>>, <<570, 660>>,
     <<200, 360>>, <<200, 520>>, <<570, 660>>, <<520, 600>>, <<360, 600>>, <<570, 660>>,
     <<200, 520>>, <<360, 520>>, <<570, 660>>, <<600, 200>>, <<600, 40>>, <<570, 660>>,
     <<360, 40>>, <<520, 40>>, <<570, 660>>, <<440, 600>>, <<280, 600>>, <<570, 660>>,
     <<280, 200>>, <<440, 200>>, <<570, 660>>, <<360, 200>>, <<360, 40>>, <<570, 660>>,
     <<200, 120>>, <<200, 280>>, <<570, 660>>, <<360, 600>>, <<360, 440>>, <<570, 660>>,
     <<200, 280>>, <<360, 280>>, <<570, 660>>, <<280, 600>>, <<280, 440>>, <<570, 660>>,
     <<280, 280>>, <<440, 280>>, <<570, 660>>, <<280, 440>>, <<120, 440>>, <<570, 660>>,
     <<360, 280>>, <<520, 280>>, <<570, 660>>, <<360, 40>>, <<280, 40>>, <<440, 280>>,
     <<600, 280>>, <<570, 660>>, <<440, 440>>, <<280, 440>>, <<570, 660>>, <<520, 280>>,
     <<520, 360>>, <<280, 520>>, <<280, 360>>, <<570, 660>>, <<520, 40>>, <<520, 120>>,
     <<280, 440>>, <<280, 280>>, <<570, 660>>, <<200, 440>>, <<280, 440>>, <<280, 360>>,
     <<280, 200>>, <<570, 660>>, <<280, 440>>, <<440, 440>>, <<570, 660>>, <<280, 200>>,
     <<120, 200>>, <<570, 660>>, <<600, 280>>, <<600, 360>>, <<600, 120>>, <<440, 120>>,
     <<570, 660>>, <<360, 520>>, <<360, 600>>, <<440, 120>>, <<280, 120>>, <<570, 660>>,
     <<520, 360>>, <<520, 440>>, <<360, 120>>, <<200, 120>>, <<570, 660>>, <<440, 440>>,
     <<600, 440>>, <<570, 660>>, <<280, 120>>, <<120, 120>>, <<570, 660>>, <<600, 360>>,
     <<600, 520>>, <<570, 660>>, <<120, 200>>, <<120, 40>>, <<570, 660>>, <<40, 40>>,
     <<200, 40>>, <<570, 660>>, <<120, 40>>, <<40, 40>>, <<200, 40>>, <<360, 40>>,
     <<570, 660>>, <<200, 120>>, <<40, 120>>, <<570, 660>>, <<360, 40>>, <<520, 40>>,
     <<570, 660>>, <<120, 440>>, <<40, 440>>, <<520, 40>>, <<520, 200>>, <<570, 660>>,
     <<600, 600>>, <<520, 600>>, <<520, 120>>, <<520, 280>>, <<570, 660>>, <<520, 600>>,
     <<440, 600>>, <<600, 440>>, <<600, 600>>, <<570, 660>>, <<440, 600>>, <<280, 600>>,
     <<570, 660>>, <<520, 200>>, <<520, 360>>, <<570, 660>>, <<360, 440>>, <<280, 440>>,
     <<520, 360>>, <<520, 520>>, <<570, 660>>, <<600, 40>>, <<520, 40>>, <<520, 440>>,
     <<520, 600>>, <<570, 660>>, <<520, 40>>, <<360, 40>>, <<570, 660>>, <<200, 200>>,
     <<280, 200>>, <<280, 280>>, <<280, 120>>, <<570, 660>>, <<520, 280>>, <<520, 360>>,
     <<360, 40>>, <<200, 40>>, <<570, 660>>, <<440, 40>>, <<440, 120>>, <<280, 40>>,
     <<120, 40>>, <<570, 660>>, <<440, 120>>, <<440, 280>>, <<570, 660>>, <<280, 120>>,
     <<200, 120>>, <<440, 200>>, <<440, 360>>, <<570, 660>>, <<280, 600>>, <<280, 520>>,
     <<440, 360>>, <<600, 360>>, <<570, 660>>, <<280, 520>>, <<200, 520>>, <<280, 200>>,
     <<280, 280>>, <<280, 440>>, <<200, 440>>, <<520, 360>>, <<520, 440>>, <<200, 520>>,
     <<200, 360>>, <<570, 660>>, <<360, 600>>, <<440, 600>>, <<200, 440>>, <<200, 280>>,
     <<570, 660>>, <<600, 360>>, <<600, 440>>, <<200, 360>>, <<200, 200>>, <<570, 660>>,
     <<280, 280>>, <<280, 360>>, <<200, 200>>, <<120, 200>>, <<440, 280>>, <<440, 360>>,
     <<40, 440>>, <<40, 360>>, <<280, 360>>, <<280, 440>>, <<40, 360>>, <<40, 280>>,
     <<280, 440>>, <<280, 520>>, <<40, 280>>, <<40, 200>>, <<280, 520>>, <<360, 520>>,
     <<120, 200>>, <<200, 200>>, <<360, 520>>, <<440, 520>>, <<200, 200>>, <<120, 200>> >>

\* The engine as EndgameScript leaves it (ReplayReachesEndgame).
InitEndgame ==
  /\ Constructed(EndgameBoard)
  /\ budget = MaxMoves
  /\ query = NoQuery
  /\ script_pos = 0

SpecEndgame == InitEndgame /\ [][Next]_vars

\* The same, for behaviours in which clicks keep coming while one is possible.
FairSpecEndgame == SpecEndgame /\ WF_vars(Next)

\* run, fed the clicks of EndgameScript in order
ReplayStep ==
  /\ script_pos < Len(EndgameScript)
  /\ handle_click(EndgameScript[script_pos + 1])
  /\ TurnHistory
  /\ script_pos' = script_pos + 1
  /\ UNCHANGED <<budget, query>>

SpecReplay == Init /\ [][ReplayStep]_vars

\* EndgameScript is a legal game that never ends early, and it ends in the
\* engine state of InitEndgame.
ReplayReachesEndgame ==
  /\ ~game_over
  /\ script_pos = Len(EndgameScript) =>
       /\ board = EndgameBoard
       /\ current_player = PLAYER1
       /\ selected_unit = NoUnit
       /\ possible_moves = {}
       /\ possible_jumps = {}
       /\ winner = EMPTY
       /\ ~in_jump_sequence
       /\ turn_kind = "none"
       /\ turn_at = NoUnit
ReplayFinishes == script_pos = Len(EndgameScript)

(* ------------------- the queries, as pure functions -------------------- *)

\* Every piece in the other side's starting block: both win conditions hold.
SwappedBoard ==
  [row \in Rows |-> [col \in Rows |->
     IF row \in 5 .. 7 /\ col \in 5 .. 7 THEN PLAYER1
     ELSE IF row \in 0 .. 2 /\ col \in 0 .. 2 THEN PLAYER2
     ELSE EMPTY]]

\* A piece in the middle of the board with a piece on each side of it.
CrossBoard ==
  [row \in Rows |-> [col \in Rows |->
     IF <<row, col>> \in {<<3, 3>>, <<2, 3>>, <<3, 4>>} THEN PLAYER1
     ELSE IF <<row, col>> \in {<<4, 3>>, <<3, 2>>} THEN PLAYER2
     ELSE EMPTY]]

BaseBoards == {_initialize_board, EndgameBoard, SwappedBoard, CrossBoard}

\* The cells a query at pos reads: pos and the cells one and two steps away.
Window(pos) ==
  {p \in Pos : \/ p[1] = pos[1] /\ p[2] - pos[2] \in -2 .. 2
               \/ p[2] = pos[2] /\ p[1] - pos[1] \in -2 .. 2}

\* b with the cells of DOMAIN f overwritten by f
Patched(b, f) ==
  [row \in Rows |-> [col \in Rows |->
     IF <<row, col>> \in DOMAIN f THEN f[<<row, col>>] ELSE b[row][col]]]

\* The boards a query at pos is tried on: a base board with at most MaxEdits
\* cells of the window overwritten by any cell value.
QueryBoards(pos) ==
  {Patched(b, f) :
     b \in BaseBoards,
     f \in UNION {[S -> CellValues] :
                    S \in {T \in SUBSET Window(pos) : Cardinality(T) <= MaxEdits}}}

InitFn ==
  /\ \E pos \in Pos :
       /\ query = [NoQuery EXCEPT !.pos = pos]
       /\ \E b \in QueryBoards(pos) : Constructed(b)
  /\ budget = 0
  /\ script_pos = 0

\* the three queries, called on self.board at query.pos
RunQueries ==
  /\ ~query.done
  /\ query' = [pos    |-> query.pos,
               done   |-> TRUE,
               simple |-> _get_simple_moves(board, query.pos[1], query.pos[2]),
               jumps  |-> _get_jump_moves(board, query.pos[1], query.pos[2]),
               win    |-> _check_win_condition(board)]
  /\ UNCHANGED <<engine, history, budget, script_pos>>

SpecFn == InitFn /\ [][RunQueries]_vars

(* ------------------------------- claims -------------------------------- *)

Count(b, player) == Cardinality({p \in Pos : At(b, p) = player})
Abs(n) == IF n < 0 THEN -n ELSE n
AllInZone(b, player, lo, hi) ==
  \A p \in Pos : At(b, p) = player => p[1] \in lo .. hi /\ p[2] \in lo .. hi
BothWinConditions(b) ==
  /\ Count(b, PLAYER1) = 9 /\ AllInZone(b, PLAYER1, 5, 7)
  /\ Count(b, PLAYER2) = 9 /\ AllInZone(b, PLAYER2, 0, 2)

\* C1: in every state reachable by clicks and end-turn requests the board
\* holds exactly 9 Player1 cells and exactly 9 Player2 cells.
C1_NinePiecesEach ==
  Count(board, PLAYER1) = 9 /\ Count(board, PLAYER2) = 9
\* every allowed board change has been made, the last one just now
C1_Witness ==
  /\ budget = 0
  /\ last.kind \in {"jump", "simple"}
  /\ board # _initialize_board

\* C2: a jump from `from` to `to` changes exactly two cells: `to` receives
\* the piece that stood on `from`, `from` becomes Empty, the jumped-over cell
\* midway keeps its piece and every other cell is unchanged.
C2_JumpChangesTwoCells ==
  [][last'.kind = "jump" =>
       LET from == last'.from
           to   == last'.to
           mid  == <<(from[1] + to[1]) \div 2, (from[2] + to[2]) \div 2>>
       IN  /\ from = selected_unit
           /\ At(board, from) \in Players
           /\ At(board, to) = EMPTY
           /\ At(board', to) = At(board, from)
           /\ At(board', from) = EMPTY
           /\ mid \notin {from, to}
           /\ At(board, mid) \in Players
           /\ At(board', mid) = At(board, mid)
           /\ \A p \in Pos \ {from, to} : At(board', p) = At(board, p)]_vars
\* a piece has just made the second jump of a chain, over a piece that is
\* still there
C2_Witness ==
  /\ last.kind = "jump"
  /\ in_jump_sequence
  /\ budget = MaxMoves - 2
  /\ current_player = PLAYER1
  /\ LET mid == <<(last.from[1] + last.to[1]) \div 2,
                  (last.from[2] + last.to[2]) \div 2>>
     IN  At(board, mid) \in Players

\* C3: once a winner has been set, every click and every end-turn request
\* leaves the board, the current player, the selection, both move sets, the
\* jump-chain flag and the winner unchanged.
C3_TerminalAfterWin ==
  [][winner # EMPTY => UNCHANGED engine]_vars
\* a click has been handled after the game was won
C3_Witness ==
  /\ game_over
  /\ winner \in Players
  /\ last.kind = "no_move"

\* C4: within one turn all board changes are made by one piece and are
\* either one simple move or a sequence of jumps, each starting where the
\* previous one landed; after a jump the player makes no simple move and
\* moves no other piece before the turn passes.
C4_OnePieceOneKindPerTurn ==
  [][board' # board =>
       \/ turn_kind = "none"
       \/ /\ turn_kind = "jump"
          /\ last'.kind = "jump"
          /\ last'.from = turn_at]_vars

\* C5: while in JumpChain no click deselects or re-selects: the chain is
\* left only by a further jump or by the end-turn action, so the engine never
\* returns to Idle with the same player to move and the game not over.
C5_ChainLeftOnlyByTurnEnd ==
  [][in_jump_sequence =>
       \/ /\ in_jump_sequence'
          /\ selected_unit' # NoUnit
          /\ last'.kind \in {"jump", "no_move"}
          /\ last'.kind = "no_move" => UNCHANGED engine
       \/ /\ last'.kind \in {"jump", "end_turn"}
          /\ current_player' # current_player \/ game_over']_vars

\* C6: jumpMoves(pos) is exactly the set of cells pos+2d, d one of the four
\* orthogonal directions, with pos+d in bounds and occupied and pos+2d in
\* bounds and Empty; every result is 2 cells from pos in a straight line and
\* there are at most 4.
C6_JumpMovesExact ==
  query.done =>
    /\ query.jumps =
         {q \in Pos :
            /\ \/ Abs(q[1] - query.pos[1]) = 2 /\ q[2] = query.pos[2]
               \/ Abs(q[2] - query.pos[2]) = 2 /\ q[1] = query.pos[1]
            /\ board[(q[1] + query.pos[1]) \div 2][(q[2] + query.pos[2]) \div 2]
                 \in Players
            /\ At(board, q) = EMPTY}
    /\ Cardinality(query.jumps) \in 0 .. 4
\* a query that found a jump in each of the four directions
C6_Witness ==
  query.done /\ Cardinality(query.jumps) = 4

\* C7: for pos holding a piece, simpleMoves(pos) is exactly the set of
\* in-bounds Empty cells among the four orthogonal neighbours of pos.
C7_SimpleMovesExact ==
  (query.done /\ At(board, query.pos) \in Players) =>
    query.simple =
      {q \in Pos : /\ Abs(q[1] - query.pos[1]) + Abs(q[2] - query.pos[2]) = 1
                   /\ At(board, q) = EMPTY}
\* a piece on the edge with a free and an occupied neighbour and, diagonally,
\* a free cell that is no move
C7_Witness ==
  /\ query.done
  /\ At(board, query.pos) \in Players
  /\ query.pos[1] = 0
  /\ query.simple # {}
  /\ \E q \in Pos : /\ Abs(q[1] - query.pos[1]) + Abs(q[2] - query.pos[2]) = 1
                    /\ At(board, q) # EMPTY
  /\ \E q \in Pos : /\ Abs(q[1] - query.pos[1]) = 1
                    /\ Abs(q[2] - query.pos[2]) = 1
                    /\ At(board, q) = EMPTY

\* C8, as claimed: simpleMoves(pos) is empty whenever pos holds no piece.
C8_EmptyCellHasNoMoves ==
  (query.done /\ At(board, query.pos) = EMPTY) => query.simple = {}
\* C8, amended: simpleMoves(pos) does not read the cell at pos; for an Empty
\* pos too it is the set of in-bounds Empty orthogonal neighbours of pos.
C8_EmptyCellMovesAreFreeNeighbours ==
  (query.done /\ At(board, query.pos) = EMPTY) =>
    query.simple =
      {q \in Pos : /\ Abs(q[1] - query.pos[1]) + Abs(q[2] - query.pos[2]) = 1
                   /\ At(board, q) = EMPTY}
\* a query on an Empty cell that returned moves
C8_Witness ==
  /\ query.done
  /\ At(board, query.pos) = EMPTY
  /\ query.simple # {}

\* C9: checkWin is Player1 if every Player1 piece lies in rows 5-7, cols 5-7;
\* otherwise Player2 if every Player2 piece lies in rows 0-2, cols 0-2;
\* otherwise no winner.  When both hold the result is Player1.
C9_CheckWinPlayer1First ==
  query.done =>
    /\ AllInZone(board, PLAYER1, 5, 7) => query.win = PLAYER1
    /\ (~AllInZone(board, PLAYER1, 5, 7) /\ AllInZone(board, PLAYER2, 0, 2))
         => query.win = PLAYER2
    /\ (~AllInZone(board, PLAYER1, 5, 7) /\ ~AllInZone(board, PLAYER2, 0, 2))
         => query.win = EMPTY
\* checkWin has been asked on a board where both conditions hold
C9_Witness ==
  /\ query.done
  /\ BothWinConditions(board)
  /\ query.win = PLAYER1

\* C10, as claimed: a position in which both win conditions hold is reached.
\* (No behaviour at all reaches one, C10_NeverBothWinConditions.)
C10_BothWinConditionsReached ==
  <>BothWinConditions(board)
\* C10, amended: no reachable position satisfies both win conditions: the win
\* test at the end of every turn ends the game as soon as one of them holds.
C10_NeverBothWinConditions ==
  ~BothWinConditions(board)
\* the game is won with the loser one move short of the other condition
C10_Witness ==
  /\ game_over
  /\ \E player \in Players :
       /\ winner = player
       /\ Cardinality({p \in Pos : /\ At(board, p) \in Players \ {player}
                                   /\ _is_in_home_area(p[1], p[2], At(board, p))}) = 8

Other(player) == IF player = PLAYER1 THEN PLAYER2 ELSE PLAYER1
Deselected ==
  /\ selected_unit = NoUnit
  /\ possible_moves = {}
  /\ possible_jumps = {}
  /\ ~in_jump_sequence
\* the free cells next to p, and the free cells two steps from p in a straight
\* line behind an occupied cell, stated by distance
FreeNeighbours(b, p) ==
  {q \in Pos : /\ Abs(q[1] - p[1]) + Abs(q[2] - p[2]) = 1
               /\ At(b, q) = EMPTY}
HopTargets(b, p) ==
  {q \in Pos : /\ \/ Abs(q[1] - p[1]) = 2 /\ q[2] = p[2]
                  \/ Abs(q[2] - p[2]) = 2 /\ q[1] = p[1]
               /\ b[(q[1] + p[1]) \div 2][(q[2] + p[2]) \div 2] \in Players
               /\ At(b, q) = EMPTY}
\* b with the piece on `from` relocated to `to`
Relocated(b, from, to) ==
  [row \in Rows |-> [col \in Rows |->
     IF <<row, col>> = to THEN At(b, from)
     ELSE IF <<row, col>> = from THEN EMPTY
     ELSE b[row][col]]]

\* C11: in JumpChain, with the jump set of the active piece non-empty, the
\* end-turn action ends the turn: selection, both move sets and the chain
\* flag are cleared, the board is unchanged and, if no win condition holds,
\* the current player switches to the other player.
C11_EndTurnMidChain ==
  [][(in_jump_sequence /\ possible_jumps # {} /\ handle_click(ButtonPoint)) =>
       /\ Deselected'
       /\ board' = board
       /\ (~AllInZone(board, PLAYER1, 5, 7) /\ ~AllInZone(board, PLAYER2, 0, 2))
            => /\ current_player' = Other(current_player)
               /\ ~game_over'
               /\ winner' = EMPTY]_vars
\* Player1 has ended a jump chain by the button, with a jump still open
C11_Witness ==
  /\ last.kind = "end_turn"
  /\ current_player = PLAYER2
  /\ Deselected
  /\ \E p \in Pos : At(board, p) = PLAYER1 /\ HopTargets(board, p) # {}

C13_SimpleMoveEndsTurn ==
  [][\A p \in possible_moves :
       (/\ selected_unit # NoUnit
        /\ ~in_jump_sequence
        /\ ~game_over
        /\ handle_click(CellCentre(p[1], p[2]))) =>
          /\ board' = Relocated(board, selected_unit, p)
          /\ Deselected'
          /\ \/ game_over' /\ winner' = current_player /\ current_player' = current_player
             \/ ~game_over' /\ current_player' = Other(current_player)]_vars
\* a simple move has won the game
C13_Witness ==
  /\ last.kind = "simple"
  /\ game_over
  /\ Deselected

\* the cell a click point lies on, as handle_click converts it
CellOf(mouse_pos) == <<mouse_pos[2] \div SQUARE_SIZE, mouse_pos[1] \div SQUARE_SIZE>>
OnBoard(mouse_pos) == CellOf(mouse_pos) \in Pos

\* C14: in JumpChain, a click on a cell that is neither the active piece nor
\* a member of the jump set (a would-be simple move, another own piece, an
\* opponent piece, an empty cell) leaves the board, current player,
\* selection, move sets and chain flag unchanged.
C14_OtherClicksIgnoredMidChain ==
  [][\A m \in ClickPoints :
       (/\ in_jump_sequence
        /\ OnBoard(m)
        /\ CellOf(m) # selected_unit
        /\ CellOf(m) \notin possible_jumps
        /\ handle_click(m)) => UNCHANGED engine]_vars
\* a click has been ignored mid-chain while the active piece had a free
\* neighbour, another own piece and an opponent piece to click on
C14_Witness ==
  /\ in_jump_sequence
  /\ last.kind = "no_move"
  /\ FreeNeighbours(board, selected_unit) # {}
  /\ \E p \in Pos \ {selected_unit} : At(board, p) = current_player
  /\ \E p \in Pos : At(board, p) = Other(current_player)

\* C15: invalid intents in Idle are silent no-ops: a click on an Empty cell,
\* on an opponent's piece or outside the board, and an end-turn request when
\* not in JumpChain, leave the board, current player, selection, move sets,
\* chain flag and game outcome unchanged.
C15_InvalidClicksIgnored ==
  [][\A m \in ClickPoints :
       (/\ ~in_jump_sequence
        /\ \/ m = ButtonPoint
           \/ /\ selected_unit = NoUnit
              /\ \/ ~OnBoard(m)
                 \/ OnBoard(m) /\ At(board, CellOf(m)) # current_player
        /\ handle_click(m)) => UNCHANGED engine]_vars
\* a click has just been handled in Idle, before any move, and changed nothing
C15_Witness ==
  /\ Deselected
  /\ ~game_over
  /\ last.kind = "no_move"
  /\ board = _initialize_board
  /\ current_player = PLAYER1

\* C16: from Selected (not mid-chain), a click that is no legal jump or
\* simple-move target never changes the board or the current player: on the
\* selected piece it deselects, on a different own piece it re-selects that
\* piece with both move sets recomputed, on any other cell it deselects.
C16_NonTargetClicksInSelected ==
  [][\A p \in Pos \ (possible_moves \cup possible_jumps) :
       (/\ selected_unit # NoUnit
        /\ ~in_jump_sequence
        /\ ~game_over
        /\ handle_click(CellCentre(p[1], p[2]))) =>
          /\ UNCHANGED <<board, current_player, game_over, winner>>
          /\ ~in_jump_sequence'
          /\ IF p # selected_unit /\ At(board, p) = current_player
             THEN /\ selected_unit' = p
                  /\ possible_moves' = FreeNeighbours(board, p)
                  /\ possible_jumps' = HopTargets(board, p)
             ELSE Deselected']_vars
\* a piece with a move open is selected while another own piece, an opponent
\* piece and a free cell that is no target can be clicked
C16_Witness ==
  /\ selected_unit # NoUnit
  /\ ~in_jump_sequence
  /\ last.kind = "no_move"
  /\ possible_moves # {}
  /\ possible_jumps # {}
  /\ budget < ShortMoves

\* C17: every board-changing step is a legal move by the side to move: it
\* relocates exactly one piece of the current player from the selected cell
\* to a cell in the jump moves of that cell or, when not mid-chain, in its
\* simple moves; pieces never move by any other step.
C17_BoardChangesAreLegalMoves ==
  [][board' # board =>
       /\ selected_unit # NoUnit
       /\ At(board, selected_unit) = current_player
       /\ \E to \in Pos :
            /\ \/ to \in HopTargets(board, selected_unit)
               \/ ~in_jump_sequence /\ to \in FreeNeighbours(board, selected_unit)
            /\ board' = Relocated(board, selected_unit, to)]_vars
\* two moves have been made, the later one a simple move by the second player
C17_Witness ==
  /\ last.kind = "simple"
  /\ current_player = PLAYER1
  /\ board # _initialize_board
  /\ budget = MaxMoves - 2

\* C18: immediately after any jump the set of further jumps is non-empty,
\* since the jump back over the same piece is legal; every jump enters or
\* stays in JumpChain and the jump click never ends the turn.
C18_JumpBackAlwaysLegal ==
  last.kind = "jump" =>
    /\ last.from \in possible_jumps
    /\ last.from \in HopTargets(board, last.to)
    /\ possible_jumps = HopTargets(board, last.to)
    /\ in_jump_sequence
    /\ selected_unit = last.to
    /\ At(board, last.to) = current_player
\* a jump has landed on a cell with a further jump besides the jump back
C18_Witness ==
  /\ last.kind = "jump"
  /\ in_jump_sequence
  /\ possible_jumps \ {last.from} # {}

\* C19: turn-state consistency: with nothing selected both move sets are
\* empty and the chain flag is false; a selection holds a piece of the
\* current player, the stored jump set is the jump moves of the selected
\* cell, the stored simple set is its simple moves when not mid-chain and
\* empty mid-chain; mid-chain a selection exists and the jump set is
\* non-empty.
C19_TurnStateConsistent ==
  /\ selected_unit = NoUnit =>
       possible_moves = {} /\ possible_jumps = {} /\ ~in_jump_sequence
  /\ selected_unit # NoUnit =>
       /\ selected_unit \in Pos
       /\ At(board, selected_unit) = current_player
       /\ possible_jumps = HopTargets(board, selected_unit)
       /\ possible_moves = IF in_jump_sequence THEN {}
                           ELSE FreeNeighbours(board, selected_unit)
  /\ in_jump_sequence => selected_unit # NoUnit /\ possible_jumps # {}
\* a chain has been left and another piece selected with moves of both kinds
C19_Witness ==
  /\ selected_unit # NoUnit
  /\ ~in_jump_sequence
  /\ possible_moves # {}
  /\ possible_jumps # {}
  /\ board # _initialize_board

\* C20: whenever the game is over the winner is the current player (the
\* player is not switched on a win) and all nine pieces of the winner are in
\* the winner's target zone; a player is never declared winner at the end
\* of the opponent's turn.
C20_WinnerIsPlayerWhoMoved ==
  game_over =>
    /\ winner \in Players
    /\ winner = current_player
    /\ Count(board, winner) = 9
    /\ IF winner = PLAYER1 THEN AllInZone(board, PLAYER1, 5, 7)
                           ELSE AllInZone(board, PLAYER2, 0, 2)
    /\ last.kind = "end_turn" \/ last.kind = "simple" \/ last.kind = "no_move"
\* the second player has won by a move of its own
C20_Witness ==
  /\ game_over
  /\ winner = PLAYER2
  /\ current_player = PLAYER2

====
